---- MODULE Spec2Model ----
(***************************************************************************)
(* The nexus I/O path of io-engine (bdev/nexus/nexus_io.rs): the per-IO    *)
(* state machine NexusBio with its context NioCtx, the fan-out to the      *)
(* children of a nexus, completion accounting, fault handling and the      *)
(* self-shutdown of the nexus on a reservation conflict.                   *)
(*                                                                         *)
(* A handler (submit_request, nexus_get_buf_cb, child_completion) runs on  *)
(* one reactor without interruption, so each is one action.  The handlers  *)
(* are written as operators over a snapshot `m` of the variables, so that  *)
(* the calls a handler makes (complete -> ok_checked -> retry_checked ->   *)
(* submit_request -> submit_all ...) compose as they do in the source.     *)
(*                                                                         *)
(* A logical completion (ok / fail / no_mem of the bdev IO) hands the IO   *)
(* back to its submitter.  The source can go on using the IO after that    *)
(* (nexus_get_buf_cb); the model follows the outcome in which the memory   *)
(* of the IO is still intact, which is what the pooled allocation of the   *)
(* runtime produces as long as the IO is not handed out again.             *)
(***************************************************************************)
EXTENDS Integers, Sequences, FiniteSets, TLC

\* ------------------------------------------------------------------ bounds
NumDevs == 3
NumIos == 2
NumCores == 2
MaxOffset == 1
MaxResubmits == 1
MaxMapBlocks == 5
MaxJobBlocks == 4
MaxWrites == 1
tasks_total == 2
SoloHealthy == 2
MultiHealthy == 1
MaxRetries == 2

\* Nexus::data_ent_offset, the metadata prefix of every child, in blocks.
data_ent_offset == 2

Devs == 1 .. NumDevs
SoloIos == {1}
WideTypes == {"Read", "Write"}
WideStatus ==
  {"Success", "InvalidOpcode", "AbortedSubmissionQueueDeleted", "IoError"}
MultiStatus == {"Success", "ReservationConflict"}
SoloCores == {1}
Ios == 1 .. NumIos
Cores == 1 .. NumCores
Offsets == 0 .. MaxOffset
\* Block lengths and segment sizes in bytes; a segment is a whole number of
\* blocks.
BlockLens == {1, 2}
SegmentSizes == {2, 4}
\* The extents an IO can cover: from an offset to the end of the volume.
Extents == {[offset |-> o, num_blocks |-> MaxOffset + 1 - o] : o \in Offsets}

\* IoType, as dispatched by submit_request ("Other" is every remaining type).
WriteClass == {"Write", "WriteZeros", "Unmap", "Reset"}
IoTypes == {"Read", "Flush", "NvmeAdmin", "Other"} \cup WriteClass

\* IoCompletionStatus, as told apart by complete and handle_failure
\* ("IoError" is every status handle_failure does not name).
FailureStatus ==
  {"InvalidOpcode", "ReservationConflict", "AbortedSubmissionQueueDeleted",
   "LvolNoSpace", "IoError"}
IoCompletionStatus == {"Success"} \cup FailureStatus

VARIABLES
  bio,                \* [Ios -> the IO descriptor and where its handling stands]
  ctx,                \* [Ios -> NioCtx: in_flight, status, must_fail]
  child_ios,          \* [Ios -> the child IOs accepted and not yet completed]
  completions,        \* [Ios -> the logical completions emitted, in order]
  hist,               \* [Ios -> what happened in the current attempt]
  dev_data,           \* [Devs -> the child writes the device completed with Success]
  readers,            \* [Cores -> NexusChannel::readers]
  writers,            \* [Cores -> NexusChannel::writers]
  last_reader,        \* [Cores -> index of the reader selected last]
  child_role,         \* [Devs -> "Healthy" | "Faulted"]
  fault_reason,       \* [Devs -> "None" | "IoError" | "NoSpace"]
  retire_queue,       \* device_cmd_queue: RetireDevice commands not yet handled
  retire_enqueued,    \* [Devs -> number of RetireDevice commands ever enqueued]
  shutdown_requested, \* Nexus::shutdown_requested
  shutdown_sent,      \* number of self-shutdown futures sent to the master reactor
  nexus_state,        \* Nexus::state
  sd_pc,              \* position of the self-shutdown future
  sd_devices,         \* devices the self-shutdown future still has to disconnect
  rebuilds_cancelled, \* step 2 of the self-shutdown has run
  children_closed,    \* step 3 of the self-shutdown has run
  seg_map,            \* a SegmentMap: segments, num_segments, num_blocks, ...
  seg_op,             \* the call made on seg_map last, and the map before it
  job,                \* the rebuild job: state, maps, copies in flight, stats
  src_data,           \* [block -> what the source child holds]
  dst_data,           \* [block -> what the destination child holds]
  io_log              \* [Cores -> the writes logged on the channel, in order]

\* The segment map and the rebuild job, which the I/O path leaves alone.
rebuild_vars == <<seg_map, seg_op, job, src_data, dst_data, io_log>>

vars ==
  <<bio, ctx, child_ios, completions, hist, dev_data, readers, writers,
    last_reader, child_role, fault_reason, retire_queue, retire_enqueued,
    shutdown_requested, shutdown_sent, nexus_state, sd_pc, sd_devices,
    rebuilds_cancelled, children_closed, rebuild_vars>>

\* ----------------------------------------------------------------- helpers
Range(s) == {s[i] : i \in 1 .. Len(s)}

Without(s, d) == SelectSeq(s, LAMBDA x : x # d)

\* in_flight is a u8.
U8(n) == n % 256

\* The part of the state the I/O handlers read and write.
Snapshot ==
  [bio |-> bio, ctx |-> ctx, child_ios |-> child_ios,
   completions |-> completions, hist |-> hist, dev_data |-> dev_data,
   readers |-> readers, writers |-> writers, last_reader |-> last_reader,
   child_role |-> child_role, fault_reason |-> fault_reason,
   retire_queue |-> retire_queue, retire_enqueued |-> retire_enqueued,
   shutdown_requested |-> shutdown_requested, shutdown_sent |-> shutdown_sent,
   sd_pc |-> sd_pc]

Commit(m) ==
  /\ bio' = m.bio
  /\ ctx' = m.ctx
  /\ child_ios' = m.child_ios
  /\ completions' = m.completions
  /\ hist' = m.hist
  /\ dev_data' = m.dev_data
  /\ readers' = m.readers
  /\ writers' = m.writers
  /\ last_reader' = m.last_reader
  /\ child_role' = m.child_role
  /\ fault_reason' = m.fault_reason
  /\ retire_queue' = m.retire_queue
  /\ retire_enqueued' = m.retire_enqueued
  /\ shutdown_requested' = m.shutdown_requested
  /\ shutdown_sent' = m.shutdown_sent
  /\ sd_pc' = m.sd_pc

NewCtx == [in_flight |-> 0, status |-> "Pending", must_fail |-> FALSE]

NoLast == [dev |-> 0, status |-> "None"]

\* What is remembered of the attempt that was resubmitted (pending: its
\* child IOs still outstanding when it was resubmitted).
NoPrev ==
  [fanout |-> <<>>, accepted |-> {}, rejected |-> {}, pending |-> 0,
   bad |-> {}, last |-> NoLast]

\* The record of one attempt of an IO (history, not read by the handlers):
\* attempt: the number of resubmissions so far; fanned, fanout: whether the
\* fan-out ran, and the vector (writers, or readers for a read) it ran over;
\* tried: child submissions made; order: the devices they were made to, in
\* order; accepted, rejected: the devices that took or refused one; ok_done, bad_done: the devices whose child completion
\* arrived, with Success or not; bad: the failed child completions, device
\* and status; last: the child completion that brought
\* in_flight to 0; cause: the status of the completion that made the
\* previous attempt resubmit; prev: that attempt.
NewHist(attempt, cause, prev) ==
  [attempt |-> attempt, fanned |-> FALSE, fanout |-> <<>>, tried |-> 0,
   order |-> <<>>,
   accepted |-> {}, rejected |-> {}, ok_done |-> {}, bad_done |-> {},
   bad |-> {}, last |-> NoLast, cause |-> cause, prev |-> prev]

IdleBio ==
  [phase |-> "idle", io_type |-> "Flush", core |-> 1, offset |-> 0,
   num_blocks |-> 0, need_buf |-> FALSE]

\* The nexus is open, with the first k children healthy and in every channel;
\* the others were faulted and retired before the channels were made.
InitNexus(K) ==
  /\ bio = [io \in Ios |-> IdleBio]
  /\ ctx = [io \in Ios |-> NewCtx]
  /\ child_ios = [io \in Ios |-> {}]
  /\ completions = [io \in Ios |-> <<>>]
  /\ hist = [io \in Ios |-> NewHist(0, "None", NoPrev)]
  /\ dev_data = [d \in Devs |-> {}]
  /\ \E k \in K :
       /\ readers = [c \in Cores |-> [i \in 1 .. k |-> i]]
       /\ writers = [c \in Cores |-> [i \in 1 .. k |-> i]]
       /\ child_role = [d \in Devs |-> IF d <= k THEN "Healthy" ELSE "Faulted"]
       /\ fault_reason = [d \in Devs |-> IF d <= k THEN "None" ELSE "IoError"]
       /\ retire_enqueued = [d \in Devs |-> IF d <= k THEN 0 ELSE 1]
  /\ last_reader = [c \in Cores |-> 0]
  /\ retire_queue = <<>>
  /\ shutdown_requested = FALSE
  /\ shutdown_sent = 0
  /\ nexus_state = "Open"
  /\ sd_pc = "none"
  /\ sd_devices = <<>>
  /\ rebuilds_cancelled = FALSE
  /\ children_closed = FALSE

\* ---------------------------------------------------------------- SegmentMap
\* u64::div_ceil
div_ceil(a, b) == (a + b - 1) \div b

\* SegmentMap::new: num_segments bits, all clean.  Segment i is segments[i].
segment_map_new(num_blocks, block_len, segment_size) ==
  LET num_segments == div_ceil(num_blocks * block_len, segment_size) IN
  [segments |-> [i \in 0 .. num_segments - 1 |-> FALSE],
   num_segments |-> num_segments,
   num_blocks |-> num_blocks,
   block_len |-> block_len,
   segment_size |-> segment_size]

\* The index of the segment of a logical block.
lbn_to_seg(map, lbn) == (lbn * map.block_len) \div map.segment_size

\* merge that keeps only the bits of the other map.
merge_overwrite(self, other) ==
  [self EXCEPT !.segments = [i \in DOMAIN @ |-> other.segments[i]]]

\* SegmentMap::merge: BitVec::or of the segments of two maps of one length.
merge(self, other) ==
  [self EXCEPT !.segments = [i \in DOMAIN @ |-> @[i] \/ other.segments[i]]]

\* set that marks the segment of the first block only.
set_first_segment(map, lbn, lbn_cnt, value) ==
  [map EXCEPT !.segments[lbn_to_seg(map, lbn)] = value]

\* SegmentMap::set: every segment from that of the first block to that of the
\* last block of the range gets the value.
set(map, lbn, lbn_cnt, value) ==
  LET start_seg == lbn_to_seg(map, lbn)
      end_seg == lbn_to_seg(map, lbn + lbn_cnt - 1)
  IN [map EXCEPT !.segments =
        [i \in DOMAIN @ |-> IF start_seg <= i /\ i <= end_seg THEN value ELSE @[i]]]

\* Option<bool>
None == [some |-> FALSE, value |-> FALSE]

Some(b) == [some |-> TRUE, value |-> b]

\* SegmentMap::get: the bit of the segment of the block, None beyond the bitmap.
get(map, lbn) ==
  LET seg == lbn_to_seg(map, lbn) IN
  IF seg \in DOMAIN map.segments THEN Some(map.segments[seg]) ELSE None

count_ones(map) == Cardinality({i \in DOMAIN map.segments : map.segments[i]})

count_dirty_blks(map) == (count_ones(map) * map.segment_size) \div map.block_len

segment_size_blks(map) == map.segment_size \div map.block_len

size_blks(map) == map.num_blocks

\* The call made on a map last.
MapOp(op, lbn, cnt, value, before, other) ==
  [op |-> op, lbn |-> lbn, cnt |-> cnt, value |-> value, before |-> before,
   other |-> other]

\* No rebuild job: nothing is registered for a source or a destination.
NoJob ==
  [state |-> "None", partial |-> FALSE, input |-> segment_map_new(0, 1, 1),
   map |-> segment_map_new(0, 1, 1), tasks |-> {}, blocks_transferred |-> 0,
   registered |-> FALSE]

NoJobData ==
  /\ job = NoJob
  /\ src_data = <<>>
  /\ dst_data = <<>>
  /\ io_log = [c \in Cores |-> <<>>]

\* No segment map is in use and no rebuild job exists.
NoRebuild ==
  /\ seg_map = segment_map_new(0, 1, 1)
  /\ seg_op = MapOp("new", 0, 0, FALSE, seg_map, seg_map)
  /\ NoJobData

InitWith(K) == InitNexus(K) /\ NoRebuild

Init == InitWith(0 .. SoloHealthy)

\* ------------------------------------------------- logical completion (BdevIo)
\* A logical completion of the IO, recorded with what the context and the
\* attempt looked like at the moment it was emitted.
Emit(m, io, st) ==
  [m EXCEPT !.completions[io] =
     Append(@, [status |-> st,
                pending |-> Cardinality(m.child_ios[io]),
                in_flight |-> m.ctx[io].in_flight,
                must_fail |-> m.ctx[io].must_fail,
                hist |-> m.hist[io]])]

ok(m, io) == Emit(m, io, "Success")

fail(m, io) == Emit(m, io, "Failed")

no_mem(m, io) == Emit(m, io, "NoMem")

\* ------------------------------------------------------------ NexusChannel
\* select_reader: round-robin, starting after the reader selected last;
\* hdl = 0 is "none available".
select_reader(m, c) ==
  LET n == Len(m.readers[c]) IN
  IF n = 0
  THEN [hdl |-> 0, m |-> m]
  ELSE LET idx == (m.last_reader[c] + 1) % n IN
       [hdl |-> m.readers[c][idx + 1], m |-> [m EXCEPT !.last_reader[c] = idx]]

num_readers(m, c) == Len(m.readers[c])

\* for_each_writer that goes on to the writers after the one that rejects.
for_each_writer_all(W, rej) ==
  LET bad == {i \in 1 .. Len(W) : W[i] \in rej}
      k == IF bad = {} THEN 0 ELSE CHOOSE i \in bad : \A j \in bad : i <= j
  IN [accepted |-> SelectSeq(W, LAMBDA d : d \notin rej),
      failed |-> IF k = 0 THEN 0 ELSE W[k]]

\* for_each_writer: calls f on every writer in vector order and stops at the
\* first error.  `rej` is the set of devices that reject a submission now.
\* accepted: the writers that took the child IO; failed: the rejecting
\* device, or 0.
for_each_writer(W, rej) ==
  LET bad == {i \in 1 .. Len(W) : W[i] \in rej}
      k == IF bad = {} THEN 0 ELSE CHOOSE i \in bad : \A j \in bad : i <= j
  IN [accepted |-> IF k = 0 THEN W ELSE SubSeq(W, 1, k - 1),
      failed |-> IF k = 0 THEN 0 ELSE W[k]]

\* disconnect_device that removes the handles of the device from the writers
\* only.
disconnect_device_writers_only(m, c, dev) ==
  [m EXCEPT !.writers[c] = Without(@, dev)]

\* disconnect_device: removes the handles of the device from both vectors.
disconnect_device(m, c, dev) ==
  [m EXCEPT !.readers[c] = Without(@, dev), !.writers[c] = Without(@, dev)]

\* NexusChannel::fault_device: the child becomes Faulted with the reason and
\* one RetireDevice command is enqueued; a child already Faulted is left alone.
channel_fault_device(m, dev, reason) ==
  IF m.child_role[dev] = "Faulted"
  THEN m
  ELSE [m EXCEPT !.child_role[dev] = "Faulted",
                 !.fault_reason[dev] = reason,
                 !.retire_queue = Append(@, dev),
                 !.retire_enqueued[dev] = @ + 1]

\* ---------------------------------------------------------------- NexusBio
\* fault_device that gives every failure the reason IoError.
fault_device_io_error(m, dev, io_status) ==
  channel_fault_device(m, dev, "IoError")

fault_device(m, dev, io_status) ==
  LET reason == IF io_status = "LvolNoSpace" THEN "NoSpace" ELSE "IoError"
  IN channel_fault_device(m, dev, reason)

\* The child offset without the shift by data_ent_offset.
child_offset_unshifted(m, io) == m.bio[io].offset

\* offset() + data_ent_offset(), the child offset of every child IO.
child_offset(m, io) == m.bio[io].offset + data_ent_offset

\* The child call of an IO type (reset carries no offset and no length: 0).
child_io(m, io, dev) ==
  LET t == m.bio[io].io_type IN
  [dev |-> dev,
   op |-> CASE t = "Read" -> "readv_blocks"
            [] t = "Write" -> "writev_blocks"
            [] t = "Unmap" -> "unmap_blocks"
            [] t = "WriteZeros" -> "write_zeroes"
            [] OTHER -> "reset",
   offset |-> IF t = "Reset" THEN 0 ELSE child_offset(m, io),
   num_blocks |-> IF t = "Reset" THEN 0 ELSE m.bio[io].num_blocks]

\* submit_read / submit_write / submit_unmap / submit_write_zeroes /
\* submit_reset on the handle of `dev`: rejected, or accepted and outstanding.
submit_child(m, io, dev, rej) ==
  IF dev \in rej
  THEN [ok |-> FALSE,
        m |-> [m EXCEPT !.hist[io].rejected = @ \cup {dev},
                        !.hist[io].order = Append(@, dev),
                        !.hist[io].tried = @ + 1]]
  ELSE [ok |-> TRUE,
        m |-> [m EXCEPT !.child_ios[io] = @ \cup {child_io(m, io, dev)},
                        !.hist[io].accepted = @ \cup {dev},
                        !.hist[io].order = Append(@, dev),
                        !.hist[io].tried = @ + 1]]

\* Clone that keeps the must_fail of the context it replaces.
clone_keeping_must_fail(m, io) ==
  LET h == m.hist[io] IN
  [m EXCEPT !.ctx[io] = [NewCtx EXCEPT !.must_fail = m.ctx[io].must_fail],
            !.hist[io] = NewHist(h.attempt + 1, h.last.status,
                                 [fanout |-> h.fanout, accepted |-> h.accepted,
                                  rejected |-> h.rejected,
                                  pending |-> Cardinality(m.child_ios[io]),
                                  bad |-> h.bad, last |-> h.last])]

\* Clone for NexusBio: NexusBio::new on the same bdev IO, a fresh context.
clone(m, io) ==
  LET h == m.hist[io] IN
  [m EXCEPT !.ctx[io] = NewCtx,
            !.hist[io] = NewHist(h.attempt + 1, h.last.status,
                                 [fanout |-> h.fanout, accepted |-> h.accepted,
                                  rejected |-> h.rejected,
                                  pending |-> Cardinality(m.child_ios[io]),
                                  bad |-> h.bad, last |-> h.last])]

do_readv_one(m, io, rej) ==
  LET sel == select_reader(m, m.bio[io].core) IN
  IF sel.hdl # 0
  THEN LET s == submit_child(sel.m, io, sel.hdl, rej) IN
       IF ~s.ok
       THEN [r |-> "Err", m |-> fault_device(s.m, sel.hdl, "IoSubmissionError")]
       ELSE [r |-> "Ok", m |-> [s.m EXCEPT !.ctx[io].in_flight = 1]]
  ELSE [r |-> "NoDevicesAvailable", m |-> m]

\* The resubmission loop of do_readv, entered with num_readers already
\* decremented for the reader that failed first.
RECURSIVE do_readv_loop(_, _, _, _)
do_readv_loop(m, io, rej, n) ==
  LET one == do_readv_one(m, io, rej) IN
  IF one.r = "Ok"
  THEN one
  ELSE IF n - 1 = 0 THEN one ELSE do_readv_loop(one.m, io, rej, n - 1)

\* do_readv whose resubmission loop runs once more than there are readers
\* left.
do_readv_extra_try(m, io, rej) ==
  LET m0 == [m EXCEPT !.hist[io].fanned = TRUE,
                      !.hist[io].fanout = m.readers[m.bio[io].core]]
      one == do_readv_one(m0, io, rej)
  IN
  CASE one.r = "Ok" -> one.m
    [] one.r = "NoDevicesAvailable" -> fail(one.m, io)
    [] OTHER ->
         LET n == num_readers(one.m, one.m.bio[io].core)
             res == IF n <= 1 THEN one ELSE do_readv_loop(one.m, io, rej, n)
         IN IF res.r # "Ok" THEN fail(res.m, io) ELSE res.m

\* do_readv that returns the NoDevicesAvailable error without failing the IO.
do_readv_silent(m, io, rej) ==
  LET m0 == [m EXCEPT !.hist[io].fanned = TRUE,
                      !.hist[io].fanout = m.readers[m.bio[io].core]]
      one == do_readv_one(m0, io, rej)
  IN
  CASE one.r = "Ok" -> one.m
    [] one.r = "NoDevicesAvailable" -> one.m
    [] OTHER ->
         LET n == num_readers(one.m, one.m.bio[io].core)
             res == IF n <= 1 THEN one ELSE do_readv_loop(one.m, io, rej, n - 1)
         IN IF res.r # "Ok" THEN fail(res.m, io) ELSE res.m

do_readv(m, io, rej) ==
  LET m0 == [m EXCEPT !.hist[io].fanned = TRUE,
                      !.hist[io].fanout = m.readers[m.bio[io].core]]
      one == do_readv_one(m0, io, rej)
  IN
  CASE one.r = "Ok" -> one.m
    [] one.r = "NoDevicesAvailable" -> fail(one.m, io)
    [] OTHER ->
         LET n == num_readers(one.m, one.m.bio[io].core)
             res == IF n <= 1 THEN one ELSE do_readv_loop(one.m, io, rej, n - 1)
         IN IF res.r # "Ok" THEN fail(res.m, io) ELSE res.m

readv(m, io, rej) ==
  IF m.bio[io].need_buf
  THEN [m EXCEPT !.bio[io].phase = "get_buf"]
  ELSE do_readv(m, io, rej)

RECURSIVE submit_request(_, _, _)

retry_checked(m, io, rej) ==
  IF m.ctx[io].in_flight = 0 THEN submit_request(clone(m, io), io, rej) ELSE m

\* ok_checked that ignores must_fail.
ok_checked_ignoring_must_fail(m, io, rej) ==
  IF m.ctx[io].in_flight = 0 THEN ok(m, io) ELSE m

\* ok_checked that fails an IO with must_fail instead of resubmitting it (the
\* call left commented out in the source).
ok_checked_failing(m, io, rej) ==
  IF m.ctx[io].in_flight = 0
  THEN IF m.ctx[io].must_fail THEN fail(m, io) ELSE ok(m, io)
  ELSE m

ok_checked(m, io, rej) ==
  IF m.ctx[io].in_flight = 0
  THEN IF m.ctx[io].must_fail THEN retry_checked(m, io, rej) ELSE ok(m, io)
  ELSE m

\* fail_checked without the in_flight check.
fail_unchecked(m, io) == fail(m, io)

fail_checked(m, io) ==
  IF m.ctx[io].in_flight = 0 THEN fail(m, io) ELSE m

RECURSIVE submit_writers(_, _, _)
submit_writers(m, io, accepted) ==
  IF accepted = <<>>
  THEN m
  ELSE submit_writers(submit_child(m, io, Head(accepted), {}).m, io, Tail(accepted))

\* submit_all that does not latch must_fail when a writer rejects.
submit_all_no_latch(m, io, rej) ==
  LET c == m.bio[io].core
      res == for_each_writer(m.writers[c], rej)
      inflight == Len(res.accepted)
      m0 == [m EXCEPT !.hist[io].fanned = TRUE,
                      !.hist[io].fanout = m.writers[c]]
      m1 == submit_writers(m0, io, res.accepted)
      m2 == IF res.failed # 0
            THEN LET device == res.failed
                     r == submit_child(m1, io, device, {device}).m
                 IN fault_device(disconnect_device(r, c, device), device,
                                 "IoSubmissionError")
            ELSE m1
  IN IF inflight # 0
     THEN ok_checked([m2 EXCEPT !.ctx[io].in_flight = U8(inflight),
                                !.ctx[io].status = "Success"], io, rej)
     ELSE fail_checked(m2, io)

\* submit_all that leaves an IO none of whose submissions succeeded without
\* a completion.
submit_all_silent(m, io, rej) ==
  LET c == m.bio[io].core
      res == for_each_writer(m.writers[c], rej)
      inflight == Len(res.accepted)
      m0 == [m EXCEPT !.hist[io].fanned = TRUE,
                      !.hist[io].fanout = m.writers[c]]
      m1 == submit_writers(m0, io, res.accepted)
      m2 == IF res.failed # 0
            THEN LET device == res.failed
                     r == submit_child(m1, io, device, {device}).m
                     f == [r EXCEPT !.ctx[io].must_fail = TRUE]
                 IN fault_device(disconnect_device(f, c, device), device,
                                 "IoSubmissionError")
            ELSE m1
  IN IF inflight # 0
     THEN ok_checked([m2 EXCEPT !.ctx[io].in_flight = U8(inflight),
                                !.ctx[io].status = "Success"], io, rej)
     ELSE m2

\* submit_all that counts the rejected submission in in_flight.
submit_all_counting_rejected(m, io, rej) ==
  LET c == m.bio[io].core
      res == for_each_writer(m.writers[c], rej)
      inflight == Len(res.accepted) + (IF res.failed # 0 THEN 1 ELSE 0)
      m0 == [m EXCEPT !.hist[io].fanned = TRUE,
                      !.hist[io].fanout = m.writers[c]]
      m1 == submit_writers(m0, io, res.accepted)
      m2 == IF res.failed # 0
            THEN LET device == res.failed
                     r == submit_child(m1, io, device, {device}).m
                     f == [r EXCEPT !.ctx[io].must_fail = TRUE]
                 IN fault_device(disconnect_device(f, c, device), device,
                                 "IoSubmissionError")
            ELSE m1
  IN IF inflight # 0
     THEN ok_checked([m2 EXCEPT !.ctx[io].in_flight = U8(inflight),
                                !.ctx[io].status = "Success"], io, rej)
     ELSE fail_checked(m2, io)

submit_all(m, io, rej) ==
  LET c == m.bio[io].core
      res == for_each_writer(m.writers[c], rej)
      inflight == Len(res.accepted)
      m0 == [m EXCEPT !.hist[io].fanned = TRUE,
                      !.hist[io].fanout = m.writers[c]]
      m1 == submit_writers(m0, io, res.accepted)
      m2 == IF res.failed # 0
            THEN LET device == res.failed
                     r == submit_child(m1, io, device, {device}).m
                     f == [r EXCEPT !.ctx[io].must_fail = TRUE]
                 IN fault_device(disconnect_device(f, c, device), device,
                                 "IoSubmissionError")
            ELSE m1
  IN IF inflight # 0
     THEN ok_checked([m2 EXCEPT !.ctx[io].in_flight = U8(inflight),
                                !.ctx[io].status = "Success"], io, rej)
     ELSE fail_checked(m2, io)

\* submit_request that fans a Flush out to the writers like a write.
submit_request_flush_all(m, io, rej) ==
  LET t == m.bio[io].io_type IN
  CASE t = "Read" -> readv(m, io, rej)
    [] t \in WriteClass \cup {"Flush"} -> submit_all(m, io, rej)
    [] t = "NvmeAdmin" -> fail(m, io)
    [] OTHER -> fail(m, io)

submit_request(m, io, rej) ==
  LET t == m.bio[io].io_type IN
  CASE t = "Read" -> readv(m, io, rej)
    [] t \in WriteClass -> submit_all(m, io, rej)
    [] t = "Flush" -> ok(m, io)
    [] t = "NvmeAdmin" -> fail(m, io)
    [] OTHER -> fail(m, io)

\* try_self_shutdown_nexus without the compare-and-swap of shutdown_requested.
try_self_shutdown_nexus_no_cas(m) ==
  [m EXCEPT !.shutdown_requested = TRUE,
            !.shutdown_sent = @ + 1,
            !.sd_pc = "scheduled"]

try_self_shutdown_nexus(m) ==
  IF m.shutdown_requested = FALSE
  THEN [m EXCEPT !.shutdown_requested = TRUE,
                 !.shutdown_sent = @ + 1,
                 !.sd_pc = "scheduled"]
  ELSE m

handle_failure(m, io, dev, status, rej) ==
  IF status = "InvalidOpcode"
  THEN m
  ELSE IF status = "ReservationConflict"
       THEN fail_checked(try_self_shutdown_nexus(m), io)
       ELSE LET f == fault_device(m, dev, status) IN
            IF status = "AbortedSubmissionQueueDeleted"
            THEN ok_checked(f, io, rej)
            ELSE fail_checked(f, io)

\* complete that does not latch status and must_fail on a failed child.
complete_no_latch(m, io, kid, status, rej) ==
  LET left == U8(m.ctx[io].in_flight + 255)
      m1 == [m EXCEPT !.child_ios[io] = @ \ {kid},
                      !.ctx[io].in_flight = left,
                      !.hist[io].last =
                        IF left = 0 THEN [dev |-> kid.dev, status |-> status]
                        ELSE @]
  IN IF status = "Success"
     THEN ok_checked([m1 EXCEPT !.hist[io].ok_done = @ \cup {kid.dev}], io, rej)
     ELSE handle_failure([m1 EXCEPT !.hist[io].bad_done = @ \cup {kid.dev},
                                    !.hist[io].bad =
                                      @ \cup {[dev |-> kid.dev, status |-> status]}],
                         io, kid.dev, status, rej)

complete(m, io, kid, status, rej) ==
  LET left == U8(m.ctx[io].in_flight + 255)
      m1 == [m EXCEPT !.child_ios[io] = @ \ {kid},
                      !.ctx[io].in_flight = left,
                      !.hist[io].last =
                        IF left = 0 THEN [dev |-> kid.dev, status |-> status]
                        ELSE @]
  IN IF status = "Success"
     THEN ok_checked([m1 EXCEPT !.hist[io].ok_done = @ \cup {kid.dev}], io, rej)
     ELSE handle_failure([m1 EXCEPT !.ctx[io].status = "Failed",
                                    !.ctx[io].must_fail = TRUE,
                                    !.hist[io].bad_done = @ \cup {kid.dev},
                                    !.hist[io].bad =
                                      @ \cup {[dev |-> kid.dev, status |-> status]}],
                         io, kid.dev, status, rej)

nexus_get_buf_cb(m, io, success, rej) ==
  do_readv(IF ~success THEN no_mem(m, io) ELSE m, io, rej)

\* ----------------------------------------------------------------- actions
\* The block-device dispatch entry: a new NexusBio is made for the IO on the
\* channel of the submitting core and submit_request runs.
\* What the children can answer to the submissions of one handler: the set
\* of devices that reject.  A write-class fan-out stops at the first writer
\* that rejects, so one rejecting writer (or none) is every case; a read can
\* meet any set of rejecting readers.
RejChoices(t, c) ==
  CASE t = "Read" -> SUBSET Range(readers[c])
    [] t \in WriteClass -> {{}} \cup {{d} : d \in Range(writers[c])}
    [] OTHER -> {{}}

RejInputs(io) == RejChoices(bio[io].io_type, bio[io].core)

Submit(io, t, c, off, blocks, nb, rej) ==
  /\ bio[io].phase = "idle"
  /\ rej \in RejChoices(t, c)
  /\ \A j \in Ios : j < io => bio[j].phase # "idle"
  /\ LET m0 == [Snapshot EXCEPT
                  !.bio[io] = [phase |-> "submitted", io_type |-> t, core |-> c,
                               offset |-> off, num_blocks |-> blocks,
                               need_buf |-> nb],
                  !.ctx[io] = NewCtx]
     IN Commit(submit_request(m0, io, rej))
  /\ UNCHANGED <<nexus_state, sd_devices, rebuilds_cancelled, children_closed,
                 rebuild_vars>>

\* The buffer-allocation hook of a read fires.
GetBufCb(io, success, rej) ==
  /\ bio[io].phase = "get_buf"
  /\ rej \in RejInputs(io)
  /\ LET m0 == [Snapshot EXCEPT !.bio[io].phase = "submitted",
                                !.bio[io].need_buf = ~success]
         m1 == nexus_get_buf_cb(m0, io, success, rej)
     IN /\ m1.hist[io].attempt <= MaxResubmits
        /\ Commit(m1)
  /\ UNCHANGED <<nexus_state, sd_devices, rebuilds_cancelled, children_closed,
                 rebuild_vars>>

\* A child device completes one child IO; a write completed with Success is
\* on the device.
ChildComplete(io, kid, status, rej) ==
  /\ kid \in child_ios[io]
  /\ rej \in RejInputs(io)
  /\ LET m0 == IF status = "Success" /\ kid.op = "writev_blocks"
               THEN [Snapshot EXCEPT !.dev_data[kid.dev] =
                       @ \cup {[io |-> io, offset |-> kid.offset]}]
               ELSE Snapshot
         m1 == complete(m0, io, kid, status, rej)
     IN /\ m1.hist[io].attempt <= MaxResubmits
        /\ rej # {} => m1.hist[io].attempt # hist[io].attempt
        /\ Commit(m1)
  /\ UNCHANGED <<nexus_state, sd_devices, rebuilds_cancelled, children_closed,
                 rebuild_vars>>

\* The consumer of device_cmd_queue on the master reactor handles one
\* RetireDevice: the device leaves every channel.
ProcessRetire ==
  /\ retire_queue # <<>>
  /\ LET d == Head(retire_queue) IN
     /\ readers' = [c \in Cores |-> Without(readers[c], d)]
     /\ writers' = [c \in Cores |-> Without(writers[c], d)]
  /\ retire_queue' = Tail(retire_queue)
  /\ UNCHANGED <<bio, ctx, child_ios, completions, hist, dev_data, last_reader,
                 child_role, fault_reason, retire_enqueued, shutdown_requested,
                 shutdown_sent, nexus_state, sd_pc, sd_devices,
                 rebuilds_cancelled, children_closed, rebuild_vars>>

\* The children that still have a device: children_iter_mut() filtered by
\* get_device_name().  A child has its device until it has been retired.
HasDevice(d) ==
  child_role[d] # "Faulted" \/ d \in Range(retire_queue)

\* The self-shutdown future that starts without looking at the nexus state.
ShutdownStartUnchecked ==
  /\ sd_pc = "scheduled"
  /\ LET devices == SelectSeq([i \in 1 .. NumDevs |-> i], HasDevice) IN
     /\ nexus_state' = "ShuttingDown"
     /\ sd_devices' = devices
     /\ sd_pc' = IF devices = <<>> THEN "cancel" ELSE "disconnect"
  /\ UNCHANGED <<bio, ctx, child_ios, completions, hist, dev_data, readers,
                 writers, last_reader, child_role, fault_reason, retire_queue,
                 retire_enqueued, shutdown_requested, shutdown_sent,
                 rebuilds_cancelled, children_closed, rebuild_vars>>

\* The self-shutdown future starts on the master reactor.
ShutdownStart ==
  /\ sd_pc = "scheduled"
  /\ IF nexus_state \in {"Shutdown", "ShuttingDown"}
     THEN /\ sd_pc' = "done"
          /\ UNCHANGED <<nexus_state, sd_devices>>
     ELSE LET devices == SelectSeq([i \in 1 .. NumDevs |-> i], HasDevice) IN
          /\ nexus_state' = "ShuttingDown"
          /\ sd_devices' = devices
          /\ sd_pc' = IF devices = <<>> THEN "cancel" ELSE "disconnect"
  /\ UNCHANGED <<bio, ctx, child_ios, completions, hist, dev_data, readers,
                 writers, last_reader, child_role, fault_reason, retire_queue,
                 retire_enqueued, shutdown_requested, shutdown_sent,
                 rebuilds_cancelled, children_closed, rebuild_vars>>

\* Step 1, per device: disconnect_device_from_channels(d).await
ShutdownDisconnect ==
  /\ sd_pc = "disconnect"
  /\ sd_devices # <<>>
  /\ LET d == Head(sd_devices) IN
     /\ readers' = [c \in Cores |-> Without(readers[c], d)]
     /\ writers' = [c \in Cores |-> Without(writers[c], d)]
  /\ sd_pc' = "retire"
  /\ UNCHANGED <<bio, ctx, child_ios, completions, hist, dev_data, last_reader,
                 child_role, fault_reason, retire_queue, retire_enqueued,
                 shutdown_requested, shutdown_sent, nexus_state, sd_devices,
                 rebuilds_cancelled, children_closed, rebuild_vars>>

\* Step 1, per device, after the await: enqueue RetireDevice for d.
ShutdownRetire ==
  /\ sd_pc = "retire"
  /\ LET d == Head(sd_devices) IN
     /\ retire_queue' = Append(retire_queue, d)
     /\ retire_enqueued' = [retire_enqueued EXCEPT ![d] = @ + 1]
  /\ sd_devices' = Tail(sd_devices)
  /\ sd_pc' = IF Tail(sd_devices) = <<>> THEN "cancel" ELSE "disconnect"
  /\ UNCHANGED <<bio, ctx, child_ios, completions, hist, dev_data, readers,
                 writers, last_reader, child_role, fault_reason,
                 shutdown_requested, shutdown_sent, nexus_state,
                 rebuilds_cancelled, children_closed, rebuild_vars>>

\* Step 2 left out: the future goes on to close the children without
\* cancelling the rebuild jobs.
ShutdownSkipCancelRebuilds ==
  /\ sd_pc = "cancel"
  /\ sd_pc' = "close"
  /\ UNCHANGED <<bio, ctx, child_ios, completions, hist, dev_data, readers,
                 writers, last_reader, child_role, fault_reason, retire_queue,
                 retire_enqueued, shutdown_requested, shutdown_sent,
                 nexus_state, sd_devices, rebuilds_cancelled, children_closed, rebuild_vars>>

\* Step 2: cancel_rebuild_jobs for every child.
ShutdownCancelRebuilds ==
  /\ sd_pc = "cancel"
  /\ rebuilds_cancelled' = TRUE
  /\ sd_pc' = "close"
  /\ UNCHANGED <<bio, ctx, child_ios, completions, hist, dev_data, readers,
                 writers, last_reader, child_role, fault_reason, retire_queue,
                 retire_enqueued, shutdown_requested, shutdown_sent,
                 nexus_state, sd_devices, children_closed, rebuild_vars>>

\* Step 3: close_children().await
ShutdownCloseChildren ==
  /\ sd_pc = "close"
  /\ children_closed' = TRUE
  /\ sd_pc' = "mark"
  /\ UNCHANGED <<bio, ctx, child_ios, completions, hist, dev_data, readers,
                 writers, last_reader, child_role, fault_reason, retire_queue,
                 retire_enqueued, shutdown_requested, shutdown_sent,
                 nexus_state, sd_devices, rebuilds_cancelled, rebuild_vars>>

\* Step 4: the nexus is marked Shutdown.
ShutdownMark ==
  /\ sd_pc = "mark"
  /\ nexus_state' = "Shutdown"
  /\ sd_pc' = "done"
  /\ UNCHANGED <<bio, ctx, child_ios, completions, hist, dev_data, readers,
                 writers, last_reader, child_role, fault_reason, retire_queue,
                 retire_enqueued, shutdown_requested, shutdown_sent,
                 sd_devices, rebuilds_cancelled, children_closed, rebuild_vars>>

SubmitInputs(t) ==
  [need_buf : IF t = "Read" THEN BOOLEAN ELSE {FALSE},
   extent : IF t \in {"Read", "Write", "WriteZeros", "Unmap"}
            THEN Extents ELSE {[offset |-> 0, num_blocks |-> 0]}]

\* The handlers of the IOs `ios`, submitted on `cores` with a type of `types`,
\* whose child IOs complete with a status of `statuses`.
IoStep(ios, cores, types, statuses) ==
  \/ \E io \in ios, t \in types, c \in cores, rej \in SUBSET Devs :
       \E i \in SubmitInputs(t) :
         Submit(io, t, c, i.extent.offset, i.extent.num_blocks, i.need_buf, rej)
  \/ \E io \in ios, success \in BOOLEAN, rej \in SUBSET Devs :
       GetBufCb(io, success, rej)
  \/ \E io \in ios, status \in statuses, rej \in SUBSET Devs :
       \E kid \in child_ios[io] : ChildComplete(io, kid, status, rej)

\* The self-shutdown future on the master reactor.
ShutdownStep ==
  \/ ShutdownStart
  \/ ShutdownDisconnect
  \/ ShutdownRetire
  \/ ShutdownCancelRebuilds
  \/ ShutdownCloseChildren
  \/ ShutdownMark

\* One logical IO on one core of a nexus with up to SoloHealthy healthy
\* children: every IO type, every submission answer, every completion status.
Next ==
  \/ IoStep(SoloIos, SoloCores, IoTypes, IoCompletionStatus)
  \/ ProcessRetire
  \/ ShutdownStep

Spec == Init /\ [][Next]_vars

\* One read or write on one core of a nexus with up to NumDevs healthy
\* children, whose child IOs meet no reservation conflict and no lack of
\* space, so that no self-shutdown is sent.
InitWide == InitWith(0 .. NumDevs)

NextWide ==
  \/ IoStep(SoloIos, SoloCores, WideTypes, WideStatus)
  \/ ProcessRetire

SpecWide == InitWide /\ [][NextWide]_vars

\* NumIos reads and writes on NumCores cores of a nexus with MultiHealthy
\* healthy children, whose child IOs succeed or meet a reservation conflict.
InitMulti == InitWith({MultiHealthy})

NextMulti ==
  \/ IoStep(Ios, Cores, WideTypes, MultiStatus)
  \/ ProcessRetire
  \/ ShutdownStep

SpecMulti == InitMulti /\ [][NextMulti]_vars

\* The graceful shutdown of the nexus initiated by the user, as far as the
\* self-shutdown future can see it: it takes the nexus from Open to
\* ShuttingDown under the state lock, unless the self-shutdown future has
\* already done so.
UserShutdownBegin ==
  /\ nexus_state = "Open"
  /\ nexus_state' = "ShuttingDown"
  /\ UNCHANGED <<bio, ctx, child_ios, completions, hist, dev_data, readers,
                 writers, last_reader, child_role, fault_reason, retire_queue,
                 retire_enqueued, shutdown_requested, shutdown_sent, sd_pc,
                 sd_devices, rebuilds_cancelled, children_closed, rebuild_vars>>

\* The graceful shutdown ends: the nexus is Shutdown.
UserShutdownEnd ==
  /\ nexus_state = "ShuttingDown"
  /\ sd_pc \in {"none", "scheduled", "done"}
  /\ nexus_state' = "Shutdown"
  /\ UNCHANGED <<bio, ctx, child_ios, completions, hist, dev_data, readers,
                 writers, last_reader, child_role, fault_reason, retire_queue,
                 retire_enqueued, shutdown_requested, shutdown_sent, sd_pc,
                 sd_devices, rebuilds_cancelled, children_closed, rebuild_vars>>

\* SpecMulti with a graceful shutdown of the nexus that can begin and end at
\* any point before the self-shutdown future has started.
NextUser ==
  \/ IoStep(Ios, Cores, WideTypes, MultiStatus)
  \/ ProcessRetire
  \/ ShutdownStep
  \/ UserShutdownBegin
  \/ UserShutdownEnd

SpecUser == InitMulti /\ [][NextUser]_vars

\* NumIos reads and writes on one core of a nexus with MultiHealthy healthy
\* children, whose child IOs succeed or are aborted by the deletion of the
\* submission queue.
OrderStatus == {"Success", "AbortedSubmissionQueueDeleted"}

NextOrder ==
  \/ IoStep(Ios, SoloCores, WideTypes, OrderStatus)
  \/ ProcessRetire

SpecOrder == InitMulti /\ [][NextOrder]_vars

\* ChildComplete for an IO that may be resubmitted up to `cap` times.
ChildCompleteUpTo(io, kid, status, rej, cap) ==
  /\ kid \in child_ios[io]
  /\ rej \in RejInputs(io)
  /\ LET m0 == IF status = "Success" /\ kid.op = "writev_blocks"
               THEN [Snapshot EXCEPT !.dev_data[kid.dev] =
                       @ \cup {[io |-> io, offset |-> kid.offset]}]
               ELSE Snapshot
         m1 == complete(m0, io, kid, status, rej)
     IN /\ m1.hist[io].attempt <= cap
        /\ rej # {} => m1.hist[io].attempt # hist[io].attempt
        /\ Commit(m1)
  /\ UNCHANGED <<nexus_state, sd_devices, rebuilds_cancelled, children_closed,
                 rebuild_vars>>

\* One read or write on one core of a nexus with MultiHealthy healthy
\* children, whose child IOs succeed or are aborted by the deletion of the
\* submission queue, and which may be resubmitted up to MaxRetries times.
NextRetry ==
  \/ IoStep(SoloIos, SoloCores, WideTypes, OrderStatus)
  \/ \E io \in SoloIos, status \in OrderStatus, rej \in SUBSET Devs :
       \E kid \in child_ios[io] :
         ChildCompleteUpTo(io, kid, status, rej, MaxRetries)
  \/ ProcessRetire

SpecRetry == InitMulti /\ [][NextRetry]_vars

\* The nexus is open with MultiHealthy healthy children and one more child
\* that is being rebuilt: the channels hold the healthy children as readers and as writers,
\* the rebuilding child as a writer only.
InitRebuild ==
  /\ bio = [io \in Ios |-> IdleBio]
  /\ ctx = [io \in Ios |-> NewCtx]
  /\ child_ios = [io \in Ios |-> {}]
  /\ completions = [io \in Ios |-> <<>>]
  /\ hist = [io \in Ios |-> NewHist(0, "None", NoPrev)]
  /\ dev_data = [d \in Devs |-> {}]
  /\ \E k \in {MultiHealthy} :
       /\ readers = [c \in Cores |-> [i \in 1 .. k |-> i]]
       /\ writers = [c \in Cores |-> [i \in 1 .. k + 1 |-> i]]
       /\ child_role = [d \in Devs |-> IF d <= k THEN "Healthy"
                                       ELSE IF d = k + 1 THEN "Rebuilding"
                                       ELSE "Faulted"]
       /\ fault_reason = [d \in Devs |-> IF d <= k + 1 THEN "None" ELSE "IoError"]
       /\ retire_enqueued = [d \in Devs |-> IF d <= k + 1 THEN 0 ELSE 1]
  /\ last_reader = [c \in Cores |-> 0]
  /\ retire_queue = <<>>
  /\ shutdown_requested = FALSE
  /\ shutdown_sent = 0
  /\ nexus_state = "Open"
  /\ sd_pc = "none"
  /\ sd_devices = <<>>
  /\ rebuilds_cancelled = FALSE
  /\ children_closed = FALSE
  /\ NoRebuild

\* One read or write on any core of that nexus.
NextRebuild ==
  \/ IoStep(SoloIos, Cores, WideTypes, WideStatus)
  \/ ProcessRetire

SpecRebuild == InitRebuild /\ [][NextRebuild]_vars

\* A segment map of a device of up to MaxMapBlocks blocks, on which set and
\* merge are called; the nexus has no child and takes no IO.
InitMap ==
  /\ InitNexus({0})
  /\ \E nb \in 1 .. MaxMapBlocks, bl \in BlockLens, ss \in SegmentSizes :
       /\ seg_map = segment_map_new(nb, bl, ss)
       /\ seg_op = MapOp("new", 0, 0, FALSE, seg_map, seg_map)
  /\ NoJobData

\* set(lbn, lbn_cnt, value) with a range of at least one block inside the
\* device (an empty range or a segment index beyond the bitmap panics).
MapSet(lbn, lbn_cnt, value) ==
  /\ seg_map.num_blocks # 0
  /\ lbn_cnt >= 1
  /\ lbn + lbn_cnt <= seg_map.num_blocks
  /\ seg_map' = set(seg_map, lbn, lbn_cnt, value)
  /\ seg_op' = MapOp("set", lbn, lbn_cnt, value, seg_map, seg_map)
  /\ UNCHANGED <<bio, ctx, child_ios, completions, hist, dev_data, readers,
                 writers, last_reader, child_role, fault_reason, retire_queue,
                 retire_enqueued, shutdown_requested, shutdown_sent,
                 nexus_state, sd_pc, sd_devices, rebuilds_cancelled,
                 children_closed, job, src_data, dst_data, io_log>>

\* The maps of the dimensions of `map`.
SameDims(map) ==
  {[map EXCEPT !.segments = bits] : bits \in [DOMAIN map.segments -> BOOLEAN]}

\* merge(other) with a map of the same dimensions (BitVec::or panics on
\* another length).
MapMerge(other) ==
  /\ other \in SameDims(seg_map)
  /\ seg_map' = merge(seg_map, other)
  /\ seg_op' = MapOp("merge", 0, 0, FALSE, seg_map, other)
  /\ UNCHANGED <<bio, ctx, child_ios, completions, hist, dev_data, readers,
                 writers, last_reader, child_role, fault_reason, retire_queue,
                 retire_enqueued, shutdown_requested, shutdown_sent,
                 nexus_state, sd_pc, sd_devices, rebuilds_cancelled,
                 children_closed, job, src_data, dst_data, io_log>>

NextMap ==
  \/ \E lbn \in 0 .. MaxMapBlocks, lbn_cnt \in 1 .. MaxMapBlocks,
        value \in BOOLEAN : MapSet(lbn, lbn_cnt, value)
  \/ \E other \in SameDims(seg_map) : MapMerge(other)

SpecMap == InitMap /\ [][NextMap]_vars

\* ---------------------------------------------------------------- RebuildJob
nexus_vars ==
  <<bio, ctx, child_ios, completions, hist, dev_data, readers, writers,
    last_reader, child_role, fault_reason, retire_queue, retire_enqueued,
    shutdown_requested, shutdown_sent, nexus_state, sd_pc, sd_devices,
    rebuilds_cancelled, children_closed>>

\* The blocks of the device that lie in a segment.
SegBlocks(map, seg) ==
  {b \in 0 .. map.num_blocks - 1 : lbn_to_seg(map, b) = seg}

FirstBlock(map, seg) == CHOOSE b \in SegBlocks(map, seg) :
                          \A x \in SegBlocks(map, seg) : b <= x

\* The number of blocks of the device in cnt segments from segment seg on
\* (PartialMap::seg_n marks whole segments).
SegsBlocks(map, seg, cnt) ==
  Cardinality({b \in 0 .. map.num_blocks - 1 :
                 seg <= lbn_to_seg(map, b) /\ lbn_to_seg(map, b) < seg + cnt})

tasks_active == Cardinality(job.tasks)

Terminal == {"Completed", "Stopped", "Failed"}

\* The bitmap of a full rebuild: every segment dirty.
all_ones(map) ==
  set(segment_map_new(map.num_blocks, map.block_len, map.segment_size),
      0, map.num_blocks, TRUE)

\* BdevRebuildJob::builder().with_bitmap(map).build(src, dst), or build
\* without a bitmap (none was marked) for a full rebuild.  The source holds 1
\* in every block;
\* the destination lacks the blocks of the dirty segments.
JobCreate(partial) ==
  /\ job.state = "None"
  /\ seg_map.num_blocks # 0
  /\ ~partial => seg_op.op = "new"
  /\ LET input == IF partial THEN seg_map ELSE all_ones(seg_map) IN
     /\ job' = [state |-> "Init", partial |-> partial, input |-> input,
                map |-> input, tasks |-> {}, blocks_transferred |-> 0,
                registered |-> TRUE]
     /\ src_data' = [b \in 0 .. input.num_blocks - 1 |-> 1]
     /\ dst_data' = [b \in 0 .. input.num_blocks - 1 |->
                       IF get(input, b) = Some(TRUE) THEN 0 ELSE 1]
  /\ UNCHANGED <<nexus_vars, seg_map, seg_op, io_log>>

\* job.start()
JobStart ==
  /\ job.state = "Init"
  /\ job' = [job EXCEPT !.state = "Running"]
  /\ UNCHANGED <<nexus_vars, seg_map, seg_op, src_data, dst_data, io_log>>

\* Every segment no copy is working on, dirty or clean.
PoppableAny ==
  {i \in DOMAIN job.map.segments : \A t \in job.tasks : t.seg # i}

\* The dirty segments no copy is working on.
Poppable ==
  {i \in DOMAIN job.map.segments :
     job.map.segments[i] /\ \A t \in job.tasks : t.seg # i}

\* The copy loop pops the next dirty segment, if a task is free; the copy
\* remembers the head of every channel's IO log.
CopyBegin ==
  /\ job.state = "Running"
  /\ tasks_active < tasks_total
  /\ Poppable # {}
  /\ LET seg == CHOOSE i \in Poppable : \A j \in Poppable : i <= j IN
     job' = [job EXCEPT !.tasks = @ \cup
               {[seg |-> seg, pc |-> "read", buf |-> <<>>,
                 head |-> [c \in Cores |-> Len(io_log[c])]]}]
  /\ UNCHANGED <<nexus_vars, seg_map, seg_op, src_data, dst_data, io_log>>

\* The segment-sized read on the source handle.
CopyRead(t) ==
  /\ t \in job.tasks
  /\ t.pc = "read"
  /\ job' = [job EXCEPT !.tasks = (@ \ {t}) \cup
               {[t EXCEPT !.pc = "write",
                          !.buf = [b \in SegBlocks(job.map, t.seg) |->
                                     src_data[b]]]}]
  /\ UNCHANGED <<nexus_vars, seg_map, seg_op, src_data, dst_data, io_log>>

\* The segment-sized write on the destination handle.
CopyWrite(t) ==
  /\ t \in job.tasks
  /\ t.pc = "write"
  /\ dst_data' = [b \in DOMAIN dst_data |->
                    IF b \in DOMAIN t.buf THEN t.buf[b] ELSE dst_data[b]]
  /\ job' = [job EXCEPT !.tasks = (@ \ {t}) \cup {[t EXCEPT !.pc = "close"]}]
  /\ UNCHANGED <<nexus_vars, seg_map, seg_op, src_data, io_log>>

\* The check of the IO logs that never finds an overlap.
log_overlaps_never(t) == FALSE

\* A write logged on any channel since the copy began overlaps its segment.
log_overlaps(t) ==
  \E c \in Cores : \E i \in t.head[c] + 1 .. Len(io_log[c]) :
    \E b \in io_log[c][i].offset .. io_log[c][i].offset + io_log[c][i].len - 1 :
      lbn_to_seg(job.map, b) = t.seg

\* The copy closes its segment: clean, unless the IO log shows an overlap,
\* and the counters are updated.  The blocks counted for a segment are
\* segment_size_blks, or the blocks of the device in it (n is either).
CopyClose(t, n) ==
  /\ t \in job.tasks
  /\ t.pc = "close"
  /\ n \in {segment_size_blks(job.map), Cardinality(SegBlocks(job.map, t.seg))}
  /\ job' = [job EXCEPT
               !.tasks = @ \ {t},
               !.blocks_transferred = @ + n,
               !.map = IF log_overlaps(t)
                       THEN set(@, FirstBlock(@, t.seg),
                                Cardinality(SegBlocks(@, t.seg)), TRUE)
                       ELSE set(@, FirstBlock(@, t.seg),
                                Cardinality(SegBlocks(@, t.seg)), FALSE)]
  /\ UNCHANGED <<nexus_vars, seg_map, seg_op, src_data, dst_data, io_log>>

\* The job is released at termination.
Terminate(j, state) == [j EXCEPT !.state = state, !.registered = FALSE]

\* An unrecoverable child error surfaces to the job in a read or a write.
CopyFail(t) ==
  /\ t \in job.tasks
  /\ t.pc \in {"read", "write"}
  /\ job' = [(IF job.state \in Terminal THEN job ELSE Terminate(job, "Failed"))
               EXCEPT !.tasks = @ \ {t}]
  /\ UNCHANGED <<nexus_vars, seg_map, seg_op, src_data, dst_data, io_log>>

\* JobComplete that does not wait for the copies in flight.
JobCompleteEarly ==
  /\ job.state = "Running"
  /\ Poppable = {}
  /\ job' = Terminate(job, "Completed")
  /\ UNCHANGED <<nexus_vars, seg_map, seg_op, src_data, dst_data, io_log>>

\* Completed: no dirty segment is left and every copy has finished.
JobComplete ==
  /\ job.state = "Running"
  /\ count_ones(job.map) = 0
  /\ tasks_active = 0
  /\ job' = Terminate(job, "Completed")
  /\ UNCHANGED <<nexus_vars, seg_map, seg_op, src_data, dst_data, io_log>>

\* pause_rebuild that pauses a job in any state.
PauseRebuildAny ==
  /\ job.state # "None"
  /\ job' = [job EXCEPT !.state = "Paused"]
  /\ UNCHANGED <<nexus_vars, seg_map, seg_op, src_data, dst_data, io_log>>

\* pause_rebuild: effective on a running job only.
PauseRebuild ==
  /\ job.state # "None"
  /\ job' = IF job.state = "Running" THEN [job EXCEPT !.state = "Paused"] ELSE job
  /\ UNCHANGED <<nexus_vars, seg_map, seg_op, src_data, dst_data, io_log>>

\* resume_rebuild: effective on a paused job only.
ResumeRebuild ==
  /\ job.state # "None"
  /\ job' = IF job.state = "Paused" THEN [job EXCEPT !.state = "Running"] ELSE job
  /\ UNCHANGED <<nexus_vars, seg_map, seg_op, src_data, dst_data, io_log>>

\* stop_rebuild: a running or paused job becomes Stopped.
StopRebuild ==
  /\ job.state # "None"
  /\ job' = IF job.state \in {"Running", "Paused"}
            THEN Terminate(job, "Stopped") ELSE job
  /\ UNCHANGED <<nexus_vars, seg_map, seg_op, src_data, dst_data, io_log>>

WritesLogged == {<<c, i>> : c \in Cores, i \in 1 .. MaxWrites} \cap
                {<<c, i>> \in Cores \X (1 .. MaxWrites) : i <= Len(io_log[c])}

\* A live write of one block through the channel of core c while the job is
\* active: the channel logs (offset, length) and the write lands on the
\* source and on the destination, which is a writer of the nexus.
LiveWrite(c, lbn) ==
  /\ job.state \in {"Running", "Paused"}
  /\ Cardinality(WritesLogged) < MaxWrites
  /\ lbn \in DOMAIN src_data
  /\ LET value == 2 + Cardinality(WritesLogged) IN
     /\ src_data' = [src_data EXCEPT ![lbn] = value]
     /\ dst_data' = [dst_data EXCEPT ![lbn] = value]
  /\ io_log' = [io_log EXCEPT ![c] = Append(@, [offset |-> lbn, len |-> 1])]
  /\ UNCHANGED <<nexus_vars, seg_map, seg_op, job>>

\* A device of MaxJobBlocks - 1 or MaxJobBlocks blocks of 1 byte in segments
\* of 2 bytes: the bitmap is marked, then the job is built and runs.
InitJob ==
  /\ InitNexus({MultiHealthy})
  /\ \E nb \in {MaxJobBlocks - 1, MaxJobBlocks} :
       /\ seg_map = segment_map_new(nb, 1, 2)
       /\ seg_op = MapOp("new", 0, 0, FALSE, seg_map, seg_map)
  /\ NoJobData

NextJob ==
  \/ \E seg \in DOMAIN seg_map.segments, cnt \in 1 .. MaxJobBlocks :
       /\ job.state = "None"
       /\ seg + cnt <= seg_map.num_segments
       /\ MapSet(FirstBlock(seg_map, seg), SegsBlocks(seg_map, seg, cnt), TRUE)
  \/ \E partial \in BOOLEAN : JobCreate(partial)
  \/ JobStart
  \/ CopyBegin
  \/ \E t \in job.tasks : CopyRead(t)
  \/ \E t \in job.tasks : CopyWrite(t)
  \/ \E t \in job.tasks, n \in 1 .. MaxJobBlocks : CopyClose(t, n)
  \/ \E t \in job.tasks : CopyFail(t)
  \/ JobComplete
  \/ PauseRebuild
  \/ ResumeRebuild
  \/ StopRebuild
  \/ \E c \in Cores, lbn \in 0 .. MaxJobBlocks : LiveWrite(c, lbn)

SpecJob == InitJob /\ [][NextJob]_vars

\* SpecMulti with the master reactor polling the self-shutdown future until
\* it is done.
SpecFair == InitMulti /\ [][NextMulti]_vars /\ WF_vars(ShutdownStep)

\* ------------------------------------------------------------------ claims
Emitted(io) == {completions[io][i] : i \in 1 .. Len(completions[io])}

EmittedBy(io, attempt) == {rec \in Emitted(io) : rec.hist.attempt = attempt}

IsWriteClass(io) == bio[io].phase # "idle" /\ bio[io].io_type \in WriteClass

IsRead(io) == bio[io].phase # "idle" /\ bio[io].io_type = "Read"

\* Failures after which handle_failure reports the IO failed (fail_checked).
HardFailure == FailureStatus \ {"InvalidOpcode", "AbortedSubmissionQueueDeleted"}

\* C1: at most one logical completion (success, failure or out-of-memory) is
\* emitted for a logical IO, all its attempts counted together.
C1_AtMostOneCompletion == \A io \in Ios : Len(completions[io]) <= 1

\* C2: a logical completion is emitted, and an IO is resubmitted, only when
\* no child IO of the attempt is outstanding and in_flight = 0; so the failure
\* of a partially submitted write waits for the accepted child IOs.
C2_NoCompletionWhileInFlight ==
  \A io \in Ios :
    /\ \A rec \in Emitted(io) : rec.pending = 0 /\ rec.in_flight = 0
    /\ hist[io].prev.pending = 0

\* C2 witness: a partially submitted write was reported failed.
C2_Witness ==
  \E io \in Ios : \E rec \in Emitted(io) :
    /\ IsWriteClass(io)
    /\ rec.status = "Failed"
    /\ rec.hist.rejected # {}
    /\ rec.hist.accepted # {}

\* C3 as stated: a read or write-class IO that emits success has must_fail
\* false, no rejected child submission and only Success child completions in
\* the attempt (at least one for a write-class IO, exactly one for a read).
C3_SuccessNoRejection ==
  \A io \in Ios : \A rec \in Emitted(io) :
    (rec.status = "Success" /\ (IsRead(io) \/ IsWriteClass(io))) =>
      /\ ~rec.must_fail
      /\ rec.hist.rejected = {}
      /\ rec.hist.bad_done = {}
      /\ rec.hist.ok_done = rec.hist.accepted
      /\ IsWriteClass(io) => Cardinality(rec.hist.ok_done) >= 1
      /\ IsRead(io) => Cardinality(rec.hist.ok_done) = 1

\* C3 amended: as C3, but only a write-class IO has no rejected child
\* submission; a read may have been rejected by readers before the one that
\* served it.
C3_SuccessClean ==
  \A io \in Ios : \A rec \in Emitted(io) :
    (rec.status = "Success" /\ (IsRead(io) \/ IsWriteClass(io))) =>
      /\ ~rec.must_fail
      /\ IsWriteClass(io) => rec.hist.rejected = {}
      /\ rec.hist.bad_done = {}
      /\ rec.hist.ok_done = rec.hist.accepted
      /\ IsWriteClass(io) => Cardinality(rec.hist.ok_done) >= 1
      /\ IsRead(io) => Cardinality(rec.hist.ok_done) = 1

\* C3 witness: a read succeeded on a reader after another reader rejected it.
C3_Witness ==
  \E io \in Ios : \E rec \in Emitted(io) :
    IsRead(io) /\ rec.status = "Success" /\ rec.hist.rejected # {}

\* C4: every submitted IO eventually emits a logical completion; so an IO
\* that was dispatched, waits for no buffer and has no child IO outstanding
\* (nothing is left that could complete it) has emitted one.
C4_QuiescentIoCompleted ==
  \A io \in Ios :
    (bio[io].phase = "submitted" /\ child_ios[io] = {}) => completions[io] # <<>>

\* C5: when a write emits success, every writer of the channel at the fan-out
\* of that attempt completed the child write at offset + data_ent_offset with
\* Success, and every reader of the channel holds that write.
C5_AckedWriteOnReplicas ==
  \A io \in Ios : \A rec \in Emitted(io) :
    (bio[io].io_type = "Write" /\ rec.status = "Success") =>
      LET w == [io |-> io, offset |-> bio[io].offset + data_ent_offset] IN
      /\ rec.hist.fanout # <<>>
      /\ Range(rec.hist.fanout) = rec.hist.ok_done
      /\ \A d \in Range(rec.hist.fanout) : w \in dev_data[d]
      /\ \A d \in Range(readers[bio[io].core]) : w \in dev_data[d]

\* C5 witness: a write at a non-zero offset was acknowledged by two writers
\* and a reader is left in the channel.
C5_Witness ==
  \E io \in Ios : \E rec \in Emitted(io) :
    /\ bio[io].io_type = "Write"
    /\ rec.status = "Success"
    /\ bio[io].offset > 0
    /\ Len(rec.hist.fanout) >= 2
    /\ readers[bio[io].core] # <<>>

\* The scenario of C6 in an attempt h: three writers at the fan-out and the
\* middle one rejected the submission.
MiddleRejected(h) == Len(h.fanout) = 3 /\ h.rejected = {h.fanout[2]}

OneChildErrored(h) ==
  Cardinality(h.rejected \cup h.bad_done) = 1 /\ h.ok_done # {}

C8_ReadFailover ==
  \A io \in Ios :
    (IsRead(io) /\ hist[io].fanned) =>
      LET h == hist[io]
          N == Len(h.fanout)
          mine == EmittedBy(io, h.attempt)
      IN
      /\ h.tried <= N
      /\ h.rejected \subseteq Range(h.fanout)
      /\ \A d \in h.rejected : child_role[d] = "Faulted" /\ retire_enqueued[d] = 1
      /\ Cardinality(h.accepted) <= 1
      /\ h.accepted # {} => h.tried = Cardinality(h.rejected) + 1
      /\ (h.accepted # {} /\ child_ios[io] # {}) => ctx[io].in_flight = 1
      /\ (h.rejected # {} /\ h.rejected # Range(h.fanout)) => h.accepted # {}
      /\ (N >= 1 /\ h.rejected = Range(h.fanout)) =>
           /\ h.accepted = {}
           /\ h.tried = N
           /\ Cardinality({rec \in mine : rec.status = "Failed"}) = 1
           /\ \A rec \in mine : rec.status # "Success"
      /\ h.ok_done # {} =>
           \E rec \in mine : rec.status = "Success"

\* C8 witness: two readers, the first rejected the read, the second served it.
C8_Witness ==
  \E io \in Ios :
    /\ IsRead(io)
    /\ Len(hist[io].fanout) = 2
    /\ Cardinality(hist[io].rejected) = 1
    /\ hist[io].tried = 2
    /\ \E rec \in Emitted(io) : rec.status = "Success"

\* A step in which do_readv ran for io on a channel without readers.
ReadOnNoReaders(io) ==
  /\ bio'[io].io_type = "Read"
  /\ bio[io].phase # "submitted"
  /\ bio'[io].phase = "submitted"
  /\ hist'[io].fanout = <<>>

\* C9: a read submitted on a channel with zero readers is failed at once,
\* exactly once: no child IO is submitted, no device is faulted, no
\* RetireDevice is enqueued and the IO is not resubmitted.
C9_NoReadersFailsOnce ==
  [][\A io \in Ios :
       ReadOnNoReaders(io) =>
         LET old == Len(completions[io])
             new == SubSeq(completions'[io], old + 1, Len(completions'[io]))
         IN
         /\ Cardinality({i \in 1 .. Len(new) : new[i].status = "Failed"}) = 1
         /\ new[Len(new)].status = "Failed"
         /\ \A i \in 1 .. Len(new) : new[i].status # "Success"
         /\ child_ios'[io] = {}
         /\ hist'[io].tried = 0
         /\ hist'[io].attempt = hist[io].attempt
         /\ ctx'[io].in_flight = 0
         /\ child_role' = child_role
         /\ fault_reason' = fault_reason
         /\ retire_queue' = retire_queue
         /\ retire_enqueued' = retire_enqueued]_vars

\* C9 witness: a read was dispatched on a channel without readers and failed.
C9_Witness ==
  \E io \in Ios :
    /\ IsRead(io)
    /\ bio[io].phase = "submitted"
    /\ hist[io].fanned
    /\ hist[io].fanout = <<>>
    /\ ~bio[io].need_buf
    /\ Len(completions[io]) = 1
    /\ completions[io][1].status = "Failed"

\* C10: the self-shutdown task of a nexus is scheduled at most once, however
\* many IOs on however many cores call try_self_shutdown_nexus; it has been
\* scheduled exactly when shutdown_requested is set.
C10_ShutdownScheduledOnce ==
  /\ shutdown_sent <= 1
  /\ shutdown_requested <=> shutdown_sent = 1

\* C10 witness: two IOs on different cores each ended on a reservation
\* conflict and one task was scheduled.
C10_Witness ==
  /\ \A io \in Ios : hist[io].last.status = "ReservationConflict"
  /\ \E i, j \in Ios : bio[i].core # bio[j].core
  /\ shutdown_sent = 1

\* The order of the self-shutdown, as seen in every state.
ShutdownOrder ==
  /\ sd_pc \in {"none", "scheduled"} => nexus_state = "Open"
  /\ sd_pc \in {"disconnect", "retire", "cancel", "close", "mark"} =>
       nexus_state = "ShuttingDown"
  /\ sd_pc \in {"disconnect", "retire"} => ~rebuilds_cancelled
  /\ rebuilds_cancelled =>
       /\ sd_devices = <<>>
       /\ \A c \in Cores : readers[c] = <<>> /\ writers[c] = <<>>
  /\ children_closed => rebuilds_cancelled
  /\ nexus_state = "Shutdown" <=> sd_pc = "done"
  /\ nexus_state = "Shutdown" => children_closed

FailuresSeen(io) == hist[io].bad \cup hist[io].prev.bad

\* C12: a child whose completion carried a reservation conflict is not
\* retired: as long as nothing else faulted it, it is not Faulted and no
\* RetireDevice command was enqueued for it, during the IO handling and
\* during the self-shutdown.
C12_OffenderNotRetired ==
  \A io \in Ios : \A b \in FailuresSeen(io) :
    (b.status = "ReservationConflict" /\ child_role[b.dev] # "Faulted") =>
      retire_enqueued[b.dev] = 0

\* C13: an IO one of whose child IOs completed with a reservation conflict
\* is reported failed: it is not resubmitted, and what it reports is Failed,
\* whatever the order of its child completions.
C13_ConflictFailsIo ==
  \A io \in Ios :
    /\ \A b \in hist[io].prev.bad : b.status # "ReservationConflict"
    /\ \A rec \in Emitted(io) :
         (\E b \in rec.hist.bad : b.status = "ReservationConflict") =>
           rec.status = "Failed"

\* Handler run from m0 to m1 faulted device d with `reason`: a child not yet
\* Faulted becomes Faulted with the reason and one more RetireDevice is
\* enqueued for it; a child already Faulted is left as it was.
Faults(m0, m1, d, reason) ==
  IF m0.child_role[d] = "Faulted"
  THEN /\ m1.child_role[d] = "Faulted"
       /\ m1.fault_reason[d] = m0.fault_reason[d]
       /\ m1.retire_enqueued[d] = m0.retire_enqueued[d]
  ELSE /\ m1.child_role[d] = "Faulted"
       /\ m1.fault_reason[d] = reason
       /\ m1.retire_enqueued[d] = m0.retire_enqueued[d] + 1

\* Handler run from m0 to m1 left the fault state of device d alone.
LeavesAlone(m0, m1, d) ==
  /\ m1.child_role[d] = m0.child_role[d]
  /\ m1.fault_reason[d] = m0.fault_reason[d]
  /\ m1.retire_enqueued[d] = m0.retire_enqueued[d]

C15_NoSpaceNeverResubmitted ==
  \A io \in Ios :
    /\ \A b \in hist[io].prev.bad : b.status # "LvolNoSpace"
    /\ \A rec \in Emitted(io) :
         (\E b \in rec.hist.bad : b.status = "LvolNoSpace") =>
           rec.status = "Failed"

Aborted(h) == \E b \in h.bad : b.status = "AbortedSubmissionQueueDeleted"

\* C16: an attempt one of whose child IOs completed with
\* AbortedSubmissionQueueDeleted is resubmitted once in_flight is 0 and is
\* not reported failed.
C16_AbortNeverFails ==
  \A io \in Ios : \A rec \in Emitted(io) :
    Aborted(rec.hist) => rec.status # "Failed"

\* C17: over the lifetime of the nexus at most one RetireDevice command is
\* enqueued for a child, a later self-shutdown included, and a Faulted child
\* has exactly one.
C17_OneRetirePerChild ==
  \A d \in Devs :
    /\ retire_enqueued[d] <= 1
    /\ child_role[d] = "Faulted" => retire_enqueued[d] = 1

\* The child call submit_all and do_readv make for an IO type.
ChildOp(t) ==
  CASE t = "Read" -> "readv_blocks"
    [] t = "Write" -> "writev_blocks"
    [] t = "Unmap" -> "unmap_blocks"
    [] t = "WriteZeros" -> "write_zeroes"
    [] t = "Reset" -> "reset"
    [] OTHER -> "none"

\* C18: dispatch by IO type.  A read has at most one child read, on a reader
\* of the channel, and exactly one reader accepted a read that succeeded; a
\* write-class IO is submitted, with the child call of its type, to writers
\* of the channel, to all of them unless one rejects; a Flush emits success
\* and an NvmeAdmin or other IO emits failure, once, without a child IO.
C18_DispatchByType ==
  \A io \in Ios :
    bio[io].phase # "idle" =>
      LET t == bio[io].io_type
          h == hist[io]
      IN
      /\ \A kid \in child_ios[io] :
           kid.op = ChildOp(t) /\ kid.dev \in Range(h.fanout)
      /\ t = "Read" =>
           /\ Cardinality(child_ios[io]) <= 1
           /\ Cardinality(h.accepted) <= 1
           /\ \A rec \in Emitted(io) :
                rec.status = "Success" => Cardinality(rec.hist.accepted) = 1
      /\ t \in WriteClass =>
           /\ h.fanned
           /\ h.accepted \subseteq Range(h.fanout)
           /\ h.rejected = {} => h.accepted = Range(h.fanout)
           /\ h.rejected = {} => Range(writers[bio[io].core]) \subseteq h.accepted
      /\ t = "Flush" =>
           /\ Len(completions[io]) = 1
           /\ completions[io][1].status = "Success"
      /\ t \in {"NvmeAdmin", "Other"} =>
           /\ Len(completions[io]) = 1
           /\ completions[io][1].status = "Failed"
      /\ t \in {"Flush", "NvmeAdmin", "Other"} =>
           /\ child_ios[io] = {}
           /\ h.tried = 0
           /\ ~h.fanned
           /\ h.attempt = 0

\* C18 witness: a Flush succeeded on a channel that has writers, without a
\* child IO.
C18_Witness ==
  \E io \in Ios :
    /\ bio[io].phase = "submitted"
    /\ bio[io].io_type = "Flush"
    /\ writers[bio[io].core] # <<>>
    /\ Len(completions[io]) = 1
    /\ completions[io][1].status = "Success"
    /\ hist[io].tried = 0

\* C19: every child read, write, unmap and write-zeroes outstanding, in a
\* first or a resubmitted attempt, is at child offset = logical offset +
\* data_ent_offset with the logical block count, so never below
\* data_ent_offset; a write that a device completed is at such an offset too.
C19_ChildOffsetShifted ==
  /\ \A io \in Ios : \A kid \in child_ios[io] :
       kid.op # "reset" =>
         /\ kid.offset = bio[io].offset + data_ent_offset
         /\ kid.num_blocks = bio[io].num_blocks
         /\ kid.offset >= data_ent_offset
         /\ bio[io].offset = 0 => kid.offset = data_ent_offset
  /\ \A d \in Devs : \A w \in dev_data[d] :
       /\ w.offset = bio[w.io].offset + data_ent_offset
       /\ w.offset >= data_ent_offset

\* C19 witness: a child unmap or write-zeroes of a resubmitted attempt, for
\* logical offset 0, is outstanding at child offset data_ent_offset.
C19_Witness ==
  \E io \in Ios : \E kid \in child_ios[io] :
    /\ hist[io].attempt = 1
    /\ bio[io].offset = 0
    /\ kid.op \in {"unmap_blocks", "write_zeroes"}
    /\ kid.offset = data_ent_offset
    /\ kid.num_blocks = MaxOffset + 1

\* IO j, submitted to the nexus after IO i on the same channel and to the
\* same offset, already has a child IO accepted by device d.
ReachedAfter(i, j, d) ==
  /\ i < j
  /\ bio[i].phase # "idle"
  /\ bio[j].phase # "idle"
  /\ bio[i].core = bio[j].core
  /\ bio[i].offset = bio[j].offset
  /\ d \in hist[j].accepted \cup hist[j].prev.accepted

\* In this step a child IO of IO i is accepted by device d.
Reaches(i, d) ==
  \/ hist'[i].attempt = hist[i].attempt /\ d \in hist'[i].accepted \ hist[i].accepted
  \/ hist'[i].attempt > hist[i].attempt /\ d \in hist'[i].accepted

\* C20: two IOs to the same offset submitted in program order on one channel
\* reach each child in that order: no child IO of the first reaches a device
\* after a child IO of the second has, a resubmission of the first included.
C20_ProgramOrderKept ==
  [][\A i, j \in Ios : \A d \in Devs : ReachedAfter(i, j, d) => ~Reaches(i, d)]_vars

\* C21: in every channel the readers are among the writers (so there are at
\* least as many writers as readers) and a child that is being rebuilt is a
\* writer and never a reader; disconnect_device removes the device from both
\* vectors of the channel, keeps the other handles, and changes nothing when
\* it is called again.
C21_ChannelVectors ==
  /\ \A c \in Cores :
       /\ Range(readers[c]) \subseteq Range(writers[c])
       /\ Len(writers[c]) >= Len(readers[c])
  /\ \A d \in Devs : child_role[d] = "Rebuilding" =>
       \A c \in Cores : d \in Range(writers[c]) /\ d \notin Range(readers[c])
  /\ \A c \in Cores : \A d \in Devs :
       LET m1 == disconnect_device(Snapshot, c, d) IN
       /\ d \notin Range(m1.readers[c])
       /\ d \notin Range(m1.writers[c])
       /\ Range(m1.readers[c]) = Range(readers[c]) \ {d}
       /\ Range(m1.writers[c]) = Range(writers[c]) \ {d}
       /\ Range(m1.readers[c]) \subseteq Range(m1.writers[c])
       /\ disconnect_device(m1, c, d) = m1

\* A writer was disconnected from one channel, which still has the rebuilding
\* child as a writer, and is still in another channel.
C21_Witness ==
  \E c, c2 \in Cores : \E d, r \in Devs :
    /\ child_role[d] = "Faulted"
    /\ d \in Range(retire_queue)
    /\ d \notin Range(writers[c])
    /\ d \in Range(readers[c2])
    /\ child_role[r] = "Rebuilding"
    /\ r \in Range(writers[c])

\* The blocks of the range of the set call made last.
SetRange == seg_op.lbn .. seg_op.lbn + seg_op.cnt - 1

AllClean(map) == \A i \in DOMAIN map.segments : ~map.segments[i]

\* C22: set(lbn, count, value) with count >= 1 and the range inside the device
\* gives the value to exactly the segments floor(lbn * block_len /
\* segment_size) .. floor((lbn + count - 1) * block_len / segment_size) and
\* leaves every other segment as it was: set(0, 1) marks one segment, a range
\* over one segment boundary marks two, every block of the range then reads
\* Some(value), and get is None exactly for a block whose segment index is
\* num_segments or more.
C22_SetMarksRange ==
  /\ seg_op.op = "set" =>
       LET b == seg_op.before
           lo == (seg_op.lbn * b.block_len) \div b.segment_size
           hi == ((seg_op.lbn + seg_op.cnt - 1) * b.block_len) \div b.segment_size
       IN /\ DOMAIN seg_map.segments = 0 .. b.num_segments - 1
          /\ \A i \in 0 .. b.num_segments - 1 :
               seg_map.segments[i] =
                 IF lo <= i /\ i <= hi THEN seg_op.value ELSE b.segments[i]
          /\ hi < b.num_segments
          /\ seg_op.lbn = 0 /\ seg_op.cnt = 1 /\ seg_op.value /\ AllClean(b)
               => count_ones(seg_map) = 1 /\ seg_map.segments[0]
          /\ hi = lo + 1 /\ seg_op.value /\ AllClean(b)
               => count_ones(seg_map) = 2
          /\ \A blk \in SetRange : get(seg_map, blk) = Some(seg_op.value)
  /\ \A lbn \in 0 .. 2 * MaxMapBlocks :
       (get(seg_map, lbn) = None) <=>
         ((lbn * seg_map.block_len) \div seg_map.segment_size
            >= seg_map.num_segments)

\* A set over one segment boundary of a map with a partial last segment, on
\* which a block beyond the device still has a segment.
C22_Witness ==
  /\ seg_op.op = "set"
  /\ seg_op.value
  /\ lbn_to_seg(seg_map, seg_op.lbn + seg_op.cnt - 1)
       = lbn_to_seg(seg_map, seg_op.lbn) + 1
  /\ count_ones(seg_op.before) = 1
  /\ count_ones(seg_map) = 3
  /\ get(seg_map, seg_map.num_blocks) # None
  /\ get(seg_map, seg_map.num_blocks + 1) = None

\* C23: the rounding of the map is toward more dirty: after set(lbn, count,
\* true) every block of the range reads dirty, and no set call, with true or
\* with false, turns a block outside the range from dirty to clean.
C23_RoundsTowardDirty ==
  seg_op.op = "set" =>
    /\ seg_op.value => \A blk \in SetRange : get(seg_map, blk) = Some(TRUE)
    /\ \A blk \in (0 .. seg_map.num_blocks - 1) \ SetRange :
         get(seg_op.before, blk) = Some(TRUE) => get(seg_map, blk) = Some(TRUE)

\* C24: merge of maps of the same dimensions is the bitwise OR of the segment
\* bits: commutative, associative and idempotent on the bits, it clears no
\* dirty bit of either map and keeps num_segments, num_blocks, block_len and
\* segment_size.
C24_MergeIsOr ==
  seg_op.op = "merge" =>
    LET a == seg_op.before
        b == seg_op.other
    IN /\ DOMAIN seg_map.segments = DOMAIN a.segments
       /\ \A i \in DOMAIN a.segments :
            seg_map.segments[i] = (a.segments[i] \/ b.segments[i])
       /\ seg_map.num_segments = a.num_segments
       /\ seg_map.num_blocks = a.num_blocks
       /\ seg_map.block_len = a.block_len
       /\ seg_map.segment_size = a.segment_size
       /\ merge(b, a).segments = seg_map.segments
       /\ merge(seg_map, b) = seg_map
       /\ merge(seg_map, a) = seg_map
       /\ merge(a, a) = a
       /\ \A c \in SameDims(a) :
            merge(merge(a, b), c).segments = merge(a, merge(b, c)).segments

\* Each of the two maps merged had a dirty segment that the other had not.
C24_Witness ==
  /\ seg_op.op = "merge"
  /\ \E i, j \in DOMAIN seg_map.segments :
       /\ seg_op.before.segments[i] /\ ~seg_op.other.segments[i]
       /\ seg_op.other.segments[j] /\ ~seg_op.before.segments[j]
       /\ seg_map.segments[i] /\ seg_map.segments[j]
  /\ \E k \in DOMAIN seg_map.segments : ~seg_map.segments[k]

NoLiveWrite == \A c \in Cores : io_log[c] = <<>>

\* The range of the job is a whole number of segments.
WholeSegments(map) == (map.num_blocks * map.block_len) % map.segment_size = 0

\* The blocks of the device in the dirty segments of a map.
DirtyBlocks(map) ==
  {b \in 0 .. map.num_blocks - 1 : get(map, b) = Some(TRUE)}

C27_CompletedWhenDone ==
  /\ job.state = "Completed" => count_ones(job.map) = 0 /\ tasks_active = 0
  /\ tasks_active <= tasks_total
  /\ \A t1, t2 \in job.tasks : t1.seg = t2.seg => t1 = t2

\* A full rebuild completed after copying both segments.
C27_Witness ==
  /\ job.state = "Completed"
  /\ ~job.partial
  /\ job.blocks_transferred >= Cardinality(DirtyBlocks(job.input))
  /\ count_ones(job.input) = 2

JobMoves ==
  {<<"None", "Init">>, <<"Init", "Running">>, <<"Running", "Paused">>,
   <<"Paused", "Running">>, <<"Running", "Completed">>,
   <<"Running", "Stopped">>, <<"Paused", "Stopped">>,
   <<"Running", "Failed">>, <<"Paused", "Failed">>}

C29_NoSubmissionFailsOnce ==
  \A io \in Ios :
    IsWriteClass(io) /\ hist[io].fanned /\ hist[io].accepted = {} =>
      LET h == hist[io] IN
      /\ Len(completions[io]) = 1
      /\ completions[io][1].status = "Failed"
      /\ completions[io][1].pending = 0
      /\ completions[io][1].in_flight = 0
      /\ completions[io][1].hist.attempt = h.attempt
      /\ completions[io][1].hist.ok_done \cup completions[io][1].hist.bad_done = {}
      /\ child_ios[io] = {}
      /\ ctx[io].in_flight = 0
      /\ h.order = IF h.fanout = <<>> THEN <<>> ELSE <<h.fanout[1]>>
      /\ h.rejected = Range(h.order)

\* The first of two writers rejected the submission: the IO failed and the
\* second writer got nothing.
C29_Witness ==
  \E io \in Ios :
    /\ IsWriteClass(io)
    /\ hist[io].attempt = 0
    /\ Len(hist[io].fanout) = 2
    /\ hist[io].rejected = {hist[io].fanout[1]}
    /\ hist[io].accepted = {}
    /\ Len(completions[io]) = 1
    /\ completions[io][1].status = "Failed"
    /\ hist[io].fanout[2] \in Range(writers[bio[io].core])

\* C30: a write-class fan-out submits its child IOs in writer-vector order
\* and stops at the first writer that rejects: the writers after it get no
\* child IO in that attempt, and in_flight is set to the number of
\* submissions accepted before the failure.
C30_FanOutStopsAtFirstReject ==
  \A io \in Ios :
    IsWriteClass(io) /\ hist[io].fanned =>
      LET h == hist[io]
          n == Len(h.order)
          done == h.ok_done \cup h.bad_done
      IN /\ n <= Len(h.fanout)
         /\ h.order = SubSeq(h.fanout, 1, n)
         /\ h.tried = n
         /\ h.rejected = {} => n = Len(h.fanout) /\ h.accepted = Range(h.fanout)
         /\ h.rejected # {} =>
              /\ h.rejected = {h.order[n]}
              /\ h.accepted = {h.order[i] : i \in 1 .. n - 1}
              /\ \A i \in n + 1 .. Len(h.fanout) :
                   /\ h.fanout[i] \notin h.accepted
                   /\ \A kid \in child_ios[io] : kid.dev # h.fanout[i]
         /\ \A kid \in child_ios[io] : kid.dev \in h.accepted \ done
         /\ done \subseteq h.accepted
         /\ ctx[io].in_flight = Cardinality(h.accepted) - Cardinality(done)

\* The second of three writers rejected: one child IO is in flight and the
\* third writer got none.
C30_Witness ==
  \E io \in Ios :
    /\ IsWriteClass(io)
    /\ Len(hist[io].fanout) = 3
    /\ hist[io].order = SubSeq(hist[io].fanout, 1, 2)
    /\ hist[io].rejected = {hist[io].fanout[2]}
    /\ hist[io].accepted = {hist[io].fanout[1]}
    /\ ctx[io].in_flight = 1
    /\ Cardinality(child_ios[io]) = 1

\* ------------------------------------------------------------------ C31
\* The devices of the channel of an IO that rejected one of its child
\* submissions, in the current attempt or in the one before it.
Rejecting(io) == hist[io].rejected \cup hist[io].prev.rejected

\* C31: a device that rejected a child submission of an IO, a read as well
\* as a write-class IO, is no longer in the readers nor in the writers of the
\* submitting channel when the handler returns, and a RetireDevice command
\* was enqueued for it.
C31_RejectingDeviceDisconnected ==
  \A io \in Ios :
    bio[io].phase # "idle" =>
      \A d \in Rejecting(io) :
        /\ d \notin Range(readers[bio[io].core])
        /\ d \notin Range(writers[bio[io].core])
        /\ retire_enqueued[d] >= 1

\* ------------------------------------------------------------------ C32
\* The child completion a step delivers to the IO: the device and the status
\* of the completion that brought in_flight to 0 in this step (NoLast when
\* the step delivers none).
Delivered(io) ==
  IF hist'[io].attempt # hist[io].attempt
  THEN hist'[io].prev.last
  ELSE IF hist'[io].last # hist[io].last THEN hist'[io].last ELSE NoLast

\* The logical completions of the IO emitted by the step.
NewlyEmitted(io) ==
  {completions'[io][i] : i \in Len(completions[io]) + 1 .. Len(completions'[io])}

\* A step delivers to a read that has its buffer, on a channel with at least
\* two readers, a child completion with a status of `statuses`.
ReadChildFails(io, statuses) ==
  /\ IsRead(io)
  /\ ~bio[io].need_buf
  /\ child_ios[io] # {}
  /\ Delivered(io).status \in statuses
  /\ Len(readers[bio[io].core]) >= 2
  /\ Delivered(io).dev \in Range(readers[bio[io].core])

\* The step faults the device of the completion and resubmits the read, the
\* first child read of the new attempt going to another reader; the read is
\* reported failed by the step only when every reader the new attempt tried
\* rejected the submission.
ReadRetried(io) ==
  /\ child_role'[Delivered(io).dev] = "Faulted"
  /\ hist'[io].attempt = hist[io].attempt + 1
  /\ hist'[io].order # <<>>
  /\ hist'[io].order[1] # Delivered(io).dev
  /\ \A rec \in NewlyEmitted(io) :
       /\ rec.status = "Failed"
       /\ rec.hist.attempt = hist[io].attempt + 1
       /\ rec.hist.accepted = {}
  /\ hist'[io].accepted # {} => NewlyEmitted(io) = {}

\* C32: a read (with its buffer) whose child read completes with the
\* transient status AbortedSubmissionQueueDeleted while the channel holds at
\* least two readers is absorbed: the failing device is faulted and the read
\* is retried on another reader instead of being reported failed.
C32_TransientReadAbsorbed ==
  [][\A io \in Ios :
       ReadChildFails(io, {"AbortedSubmissionQueueDeleted"}) => ReadRetried(io)]_vars

\* ------------------------------------------------------------------ C33
\* What sets must_fail in the current attempt of the IO: a failed child
\* completion, or a rejected child submission of a write-class IO.
Latching(io) ==
  \/ hist[io].bad_done # {}
  \/ IsWriteClass(io) /\ hist[io].rejected # {}

\* C33: must_fail is a latch.  Within one attempt it is set by every failed
\* child completion and by every rejected write-class submission and is not
\* reset to false; it goes back to false only when retry_checked resubmits
\* the IO with a fresh context (must_fail = false, status = Pending,
\* in_flight = 0), from which the new attempt starts counting.
C33_MustFailLatch ==
  /\ [](\A io \in Ios :
          bio[io].phase # "idle" => (ctx[io].must_fail <=> Latching(io)))
  /\ [][\A io \in Ios :
          (bio[io].phase # "idle" /\ ctx[io].must_fail /\ ~ctx'[io].must_fail) =>
            /\ ctx[io].in_flight = 1
            /\ hist'[io].attempt = hist[io].attempt + 1
            /\ hist'[io].rejected = {} \/ bio[io].io_type = "Read"
            /\ hist'[io].bad_done = {}
            /\ ctx'[io].in_flight = Cardinality(hist'[io].accepted)
            /\ ctx'[io].status =
                 IF IsWriteClass(io) /\ hist'[io].accepted # {}
                 THEN "Success" ELSE "Pending"]_vars

\* C33 witness: must_fail was latched by a rejected write submission, the
\* accepted child completed, and the resubmitted attempt runs with must_fail
\* cleared and its own child IOs in flight.
C33_Witness ==
  \E io \in Ios :
    /\ IsWriteClass(io)
    /\ hist[io].attempt = 1
    /\ hist[io].prev.rejected # {}
    /\ \E rec \in {hist[io].prev.last} : rec.status = "Success"
    /\ ~ctx[io].must_fail
    /\ ctx[io].in_flight = 1
    /\ child_ios[io] # {}

\* ------------------------------------------------------------------ C34
\* The self-shutdown future runs (it leaves "scheduled") and finds the nexus
\* already Shutdown or ShuttingDown.
SelfShutdownFindsShutdown ==
  /\ sd_pc = "scheduled"
  /\ sd_pc' # "scheduled"
  /\ nexus_state \in {"Shutdown", "ShuttingDown"}

\* C34: a self-shutdown future that finds the nexus already Shutdown or
\* ShuttingDown changes nothing: the state is not modified, no channel is
\* disconnected, no RetireDevice is enqueued, no rebuild is cancelled and no
\* child is closed, then and later; the state never moves from Shutdown back
\* to ShuttingDown.
C34_SkipsWhenShuttingDown ==
  /\ [][SelfShutdownFindsShutdown =>
          /\ sd_pc' = "done"
          /\ UNCHANGED <<nexus_state, readers, writers, retire_queue,
                         retire_enqueued, child_role, sd_devices,
                         rebuilds_cancelled, children_closed>>]_vars
  /\ [][sd_pc = "done" => sd_pc' = "done"]_vars
  /\ [][nexus_state = "Shutdown" => nexus_state' = "Shutdown"]_vars

\* C34 witness: the self-shutdown future has run and ended while the graceful
\* shutdown of the user was under way: the nexus is still ShuttingDown, the
\* channels still hold the child, nothing was cancelled or closed.
C34_Witness ==
  /\ sd_pc = "done"
  /\ shutdown_sent = 1
  /\ nexus_state = "ShuttingDown"
  /\ \A c \in Cores : readers[c] # <<>> /\ writers[c] # <<>>
  /\ retire_queue = <<>>
  /\ ~rebuilds_cancelled
  /\ ~children_closed

\* ------------------------------------------------------------------ C35
\* The devices that accepted a child IO of the current attempt and have not
\* completed it.
Outstanding(io) == hist[io].accepted \ (hist[io].ok_done \cup hist[io].bad_done)

\* C35: between handler executions in_flight is the number of child IOs of
\* the current attempt that were accepted and have not completed, so a child
\* completion finds in_flight > 0 and the counter does not underflow; after a
\* write-class fan-out with at least one accepted submission, and before any
\* child completion, in_flight is the number accepted and nothing has been
\* emitted by the attempt.
C35_InFlightCountsOutstanding ==
  \A io \in Ios :
    bio[io].phase # "idle" =>
      /\ ctx[io].in_flight = Cardinality(child_ios[io])
      /\ {kid.dev : kid \in child_ios[io]} = Outstanding(io)
      /\ ctx[io].in_flight = Cardinality(Outstanding(io))
      /\ child_ios[io] # {} => ctx[io].in_flight > 0
      /\ ctx[io].in_flight <= NumDevs
      /\ (IsWriteClass(io) /\ hist[io].accepted # {}
            /\ hist[io].ok_done \cup hist[io].bad_done = {}) =>
           /\ ctx[io].in_flight = Cardinality(hist[io].accepted)
           /\ EmittedBy(io, hist[io].attempt) = {}

\* C35 witness: a write accepted by two writers, one of which has completed:
\* in_flight is 1 and nothing was emitted.
C35_Witness ==
  \E io \in Ios :
    /\ IsWriteClass(io)
    /\ Cardinality(hist[io].accepted) = 2
    /\ Cardinality(hist[io].ok_done) = 1
    /\ ctx[io].in_flight = 1
    /\ completions[io] = <<>>

\* ------------------------------------------------------------------ C36
\* C36: the number of resubmissions of one logical IO by retry_checked is at
\* most the number of devices in the channel at its first submission (the
\* MultiHealthy children the channels of this nexus are made with), whatever
\* the submission results and the completion statuses.
C36_ResubmissionsBounded ==
  \A io \in Ios :
    bio[io].phase # "idle" => hist[io].attempt <= MultiHealthy

\* ------------------------------------------------------------------ C37
\* C37: no child IO is submitted for a logical IO after a logical completion
\* of it was emitted: the IO is in the attempt that emitted the completion
\* and has made no child submission since; an IO completed with
\* out-of-memory by the buffer-allocation hook has no child read.
C37_NoChildAfterCompletion ==
  \A io \in Ios : \A rec \in Emitted(io) :
    /\ hist[io].attempt = rec.hist.attempt
    /\ hist[io].tried = rec.hist.tried
    /\ hist[io].order = rec.hist.order
    /\ rec.status = "NoMem" => hist[io].tried = 0 /\ child_ios[io] = {}

\* ------------------------------------------------------------------ C38
\* The statuses of the child completions of an attempt in which the devices
\* `accepted` took a child IO and all completed, those of `bad` with a
\* failure.
StatusSet(accepted, bad) ==
  {b.status : b \in bad} \cup
  (IF accepted \ {b.dev : b \in bad} # {} THEN {"Success"} ELSE {})

\* The attempts of the IO that are over, every writer of the fan-out having
\* accepted and completed its child IO: the one that was resubmitted, and
\* the current one with what it emitted.
FinishedAttempts(io) ==
  LET h == hist[io] IN
  (IF h.attempt > 0 /\ h.prev.rejected = {} /\ h.prev.accepted # {}
   THEN {[fanout |-> h.prev.fanout,
          statuses |-> StatusSet(h.prev.accepted, h.prev.bad),
          outcome |-> "Resubmitted"]}
   ELSE {})
  \cup
  (IF h.fanned /\ h.rejected = {} /\ h.accepted # {} /\ child_ios[io] = {}
   THEN {[fanout |-> h.fanout,
          statuses |-> StatusSet(h.accepted, h.bad),
          outcome |-> IF EmittedBy(io, h.attempt) = {} THEN "None"
                      ELSE (CHOOSE rec \in EmittedBy(io, h.attempt) : TRUE).status]}
   ELSE {})

\* C38: the logical outcome (success, failure or resubmission) of a
\* write-class IO fanned out to at least two writers is determined by the set
\* of its child completion statuses: two attempts over the same writers whose
\* child completions have the same statuses have the same outcome, whatever
\* the order the completions arrived in.
C38_OutcomeIndependentOfOrder ==
  \A i, j \in Ios :
    (IsWriteClass(i) /\ IsWriteClass(j)) =>
      \A a \in FinishedAttempts(i) : \A b \in FinishedAttempts(j) :
        (Len(a.fanout) >= 2 /\ a.fanout = b.fanout /\ a.statuses = b.statuses) =>
          a.outcome = b.outcome

\* ------------------------------------------------------------------ C39
\* C39: a map made by new has ceil(num_blocks * block_len / segment_size)
\* segments (the least number of segments that cover the device), all of
\* them clean, and in every state count_dirty_blks() is at most the device
\* size in blocks size_blks(), also when the device size is not a multiple
\* of the segment size.
C39_DirtyCountWithinDevice ==
  LET bytes == seg_map.num_blocks * seg_map.block_len IN
  /\ seg_map.num_segments * seg_map.segment_size >= bytes
  /\ (seg_map.num_segments - 1) * seg_map.segment_size < bytes
  /\ DOMAIN seg_map.segments = 0 .. seg_map.num_segments - 1
  /\ seg_op.op = "new" => AllClean(seg_map)
  /\ count_dirty_blks(seg_map) <= size_blks(seg_map)

====
